---- MODULE Spec2Model ----
(***************************************************************************)
(* A model of cmp-auth-mcp-server: the authorization pages of the Hono app *)
(* (GET /authorize, POST /approve) and the MyMCP session with its four     *)
(* tools.  JavaScript values are tagged records so that undefined, null,   *)
(* strings, numbers, objects and arrays can be told apart and compared.    *)
(* Decorative glyphs of the message texts (emoji, box-drawing characters)  *)
(* are left out of the string literals; everything else is kept.           *)
(***************************************************************************)
EXTENDS Integers, Sequences, FiniteSets, TLC

VARIABLES
    parsed,     \* requests parseAuthRequest has returned at GET /authorize
    expired,    \* parsed requests whose state has expired since
    grants,     \* what the grant store holds: one record per completed call
    inflight,   \* POST /approve handlers suspended in completeAuthorization
    last,       \* the HTTP exchange that finished most recently
    nExch,      \* number of HTTP exchanges started so far
    sessions,   \* the MyMCP objects: env, cmpClient, registered tools
    pending,    \* tool invocations suspended in their call of the adapter
    lastInv,    \* the tool invocation that finished most recently
    nInv,       \* number of tool invocations started so far
    call,       \* a tool handler's inputs: tool and adapter outcome
    ret         \* what the handler made of them

authVars == <<parsed, expired, grants, inflight, last, nExch>>

toolVars == <<sessions, pending, lastInv, nInv>>

handlerVars == <<call, ret>>

vars == <<parsed, expired, grants, inflight, last, nExch,
          sessions, pending, lastInv, nInv, call, ret>>

(* ---------------------------- bounds ----------------------------------- *)

MaxExchanges == 2

MaxInvocations == 2

(* ------------------------- JavaScript values --------------------------- *)

Undefined == [t |-> "undefined"]

Null == [t |-> "null"]

Str(s) == [t |-> "string", s |-> s]

Num(n) == [t |-> "number", n |-> n]

Obj(f) == [t |-> "object", f |-> f]

Arr(e) == [t |-> "array", e |-> e]

\* ToBoolean: what `!v`, `v && ...` and `v || ...` test.
Truthy(v) ==
    CASE v.t = "undefined" -> FALSE
      [] v.t = "null" -> FALSE
      [] v.t = "string" -> v.s /= ""
      [] v.t = "number" -> v.n /= 0
      [] OTHER -> TRUE

\* a || b
OrElse(a, b) == IF Truthy(a) THEN a ELSE b

\* String.prototype.includes: sub occurs in s as a contiguous substring.
includes(s, sub) ==
    \E i \in 0..(Len(s) - Len(sub)) : SubSeq(s, i + 1, i + Len(sub)) = sub

(* --------------------- handler outcomes and responses ------------------ *)

\* c.html(body) and c.html(body, status)
html(body, status) ==
    [kind |-> "response", status |-> status, body |-> body, location |-> Undefined]

\* c.redirect(location, status): a Location header and no body
redirect(location, status) ==
    [kind |-> "response", status |-> status, body |-> Null, location |-> location]

\* the handler's promise rejects: no response is produced by the handler
Rejected(error) == [kind |-> "throw", error |-> error]

(* ------------------------- ./utils (page templates) -------------------- *)

layout(content, title) == [content |-> content, title |-> title]

renderAuthorizationRejectedContent(url) ==
    [page |-> "AuthorizationRejected", url |-> url]

renderAuthorizationApprovedContent(redirectTo) ==
    [page |-> "AuthorizationApproved", url |-> redirectTo]

\* the consent form carries the request it was rendered for
renderLoggedInAuthorizeScreen(scopes, req) ==
    [page |-> "LoggedInAuthorize", scopes |-> scopes, oauthReqInfo |-> req]

renderLoggedOutAuthorizeScreen(scopes, req) ==
    [page |-> "LoggedOutAuthorize", scopes |-> scopes, oauthReqInfo |-> req]

(* ----------------------------- inputs ---------------------------------- *)

RegisteredClients == {"client-1"}

RedirectUris ==
    { Str("https://claude.ai/api/callback"),
      Str("http://localhost:6274/mcp/callback"),
      Str("https://app.example.com/callback"),
      Str("https://claude-ai.example.com/m-c-p") }

ScopeLists == { <<"read_profile">>, <<"read_data", "admin">> }

\* what an inbound GET /authorize may carry
RawAuthRequests ==
    [ client_id : RegisteredClients \cup {"unknown-client"},
      redirect_uri : RedirectUris \cup {Undefined},
      scope : ScopeLists,
      state : {"st"} ]

\* the AuthorizationRequest objects
AuthRequests ==
    [ clientId : RegisteredClients,
      redirect_uri : RedirectUris,
      scope : ScopeLists,
      state : {"st"} ]

\* the request field of a submitted form: the request a consent form carried
RequestToken(req) == [t |-> "token", req |-> req]

FormBodies ==
    [ action : {Undefined, Str("approve"), Str("login_approve"),
                Str("reject"), Str("delete")},
      oauthReqInfo : {Undefined, Str("garbage")}
                        \cup {RequestToken(r) : r \in AuthRequests},
      email : {Undefined, Str(""), Str("a@b.com")} ]

\* redirect targets the grant store may answer with
RedirectTargets ==
    { Str("https://claude.ai/api/callback?code=c1&state=st"),
      Str("https://app.example.com/callback?code=c2&state=st") }

(* ------------------------- the grant store ----------------------------- *)

\* OAUTH_PROVIDER.parseAuthRequest: the request, or a failure when the client
\* is not registered or the redirect URI is absent.
parseAuthRequest(raw) ==
    IF raw.client_id \in RegisteredClients /\ raw.redirect_uri /= Undefined
    THEN [kind |-> "return",
          value |-> [clientId |-> raw.client_id, redirect_uri |-> raw.redirect_uri,
                     scope |-> raw.scope, state |-> raw.state]]
    ELSE Rejected([t |-> "Error", message |-> "Invalid authorization request"])

\* what OAUTH_PROVIDER.completeAuthorization stores for a call
GrantOf(options, id) ==
    [ request |-> options.request, userId |-> options.userId,
      scope |-> options.scope, metadata |-> options.metadata,
      props |-> options.props, by |-> id ]

(* --------------------------- GET /authorize ---------------------------- *)

isLoggedIn == TRUE

oauthScopes == << "read_profile", "read_data", "write_data" >>

AuthorizeTitle == "MCP Remote Auth Demo - Authorization"

StatusTitle == "CMP MCP Server - Authorization Status"

\* the handler with the two screens exchanged
authorizeScreen_Swapped(oauthReqInfo) ==
    IF isLoggedIn
    THEN html(layout(renderLoggedOutAuthorizeScreen(oauthScopes, oauthReqInfo),
                     AuthorizeTitle), 200)
    ELSE html(layout(renderLoggedInAuthorizeScreen(oauthScopes, oauthReqInfo),
                     AuthorizeTitle), 200)

\* the handler once parseAuthRequest has returned oauthReqInfo
authorizeScreen(oauthReqInfo) ==
    IF isLoggedIn
    THEN html(layout(renderLoggedInAuthorizeScreen(oauthScopes, oauthReqInfo),
                     AuthorizeTitle), 200)
    ELSE html(layout(renderLoggedOutAuthorizeScreen(oauthScopes, oauthReqInfo),
                     AuthorizeTitle), 200)

\* the whole handler: an error of parseAuthRequest is not caught
authorizeOutcome(parse) ==
    IF parse.kind = "throw" THEN parse ELSE authorizeScreen(parse.value)

Authorize(raw) ==
    /\ nExch < MaxExchanges
    /\ nExch' = nExch + 1
    /\ LET parse == parseAuthRequest(raw) IN
       /\ parsed' = IF parse.kind = "return" THEN parsed \cup {parse.value} ELSE parsed
       /\ last' = [ id |-> nExch + 1, route |-> "GET /authorize", raw |-> raw,
                    parse |-> parse, outcome |-> authorizeOutcome(parse) ]
    /\ UNCHANGED <<expired, grants, inflight, toolVars, handlerVars>>

\* the state of an issued request expires
ExpireState(req) ==
    /\ req \in parsed \ expired
    /\ expired' = expired \cup {req}
    /\ UNCHANGED <<parsed, grants, inflight, last, nExch, toolVars, handlerVars>>

(* ---------------------------- POST /approve ---------------------------- *)

\* the request of any well-formed field, issued and unexpired or not
recoverRequest_Unchecked(field) == IF field.t = "token" THEN field.req ELSE Null

\* the request a form field recovers: one a consent form was rendered for and
\* whose state has not expired; null otherwise
recoverRequest(field) ==
    IF field.t = "token" /\ field.req \in parsed \ expired THEN field.req ELSE Null

parseApproveFormBody(body) ==
    [ action |-> body.action, oauthReqInfo |-> recoverRequest(body.oauthReqInfo),
      email |-> body.email ]

\* the handler without its test of oauthReqInfo
hasRequest_Always(oauthReqInfo) == TRUE

\* line 70: if (!oauthReqInfo) return c.html("INVALID LOGIN", 401)
hasRequest(oauthReqInfo) == oauthReqInfo /= Null

\* the reject test against another word than the form submits
isReject_Deny(action) == action = Str("deny")

\* a handler that refuses every action it does not know as an approval
isReject_NotApprove(action) == action \notin {Str("approve"), Str("login_approve")}

\* line 75: action === "reject"
isReject(action) == action = Str("reject")

\* the login test the handler's comment suggests (lines 95-96)
loginRejected_Validating(action, email) ==
    action = Str("login_approve") /\ email /= Str("user@example.com")

\* lines 92-106: the login_approve branch rejects on `if (false)`
loginRejected(action, email) == action = Str("login_approve") /\ FALSE

\* the reject test with the second marker forgotten
rejectIsProgrammatic_OneMarker(redirectUri) ==
    Truthy(redirectUri) /\ includes(redirectUri.s, "claude.ai")

\* line 79: the reject branch's test of the redirect URI
rejectIsProgrammatic(redirectUri) ==
    Truthy(redirectUri)
        /\ (includes(redirectUri.s, "claude.ai") \/ includes(redirectUri.s, "mcp"))

\* line 125: the approve path's test of the redirect URI
approveIsProgrammatic(redirectUri) ==
    Truthy(redirectUri)
        /\ (includes(redirectUri.s, "claude.ai") \/ includes(redirectUri.s, "mcp"))

\* `${v}` for the values a redirect URI takes
Template(v) == IF v.t = "string" THEN v.s ELSE v.t

\* reading a property of null raises a TypeError, which nothing here catches
NullRead(key) ==
    Rejected([t |-> "Error",
              message |-> "Cannot read properties of null (reading '" \o key \o "')"])

\* lines 76-88
rejectResponse(oauthReqInfo) ==
    IF oauthReqInfo = Null THEN NullRead("redirect_uri")
    ELSE
    LET redirectUri == oauthReqInfo.redirect_uri
        errorRedirect ==
            Template(redirectUri)
                \o "?error=access_denied&error_description=User+denied+authorization"
    IN  IF rejectIsProgrammatic(redirectUri)
        THEN redirect(Str(errorRedirect), 302)
        ELSE html(layout(renderAuthorizationRejectedContent("/"), StatusTitle), 200)

\* the argument with the submitted email as userId, the default forgotten
completionOptions_RawUserId(oauthReqInfo, email) ==
    [ request |-> oauthReqInfo,
      userId |-> email,
      metadata |-> [label |-> "CMP MCP User"],
      scope |-> oauthReqInfo.scope,
      props |-> [userEmail |-> OrElse(email, Str("user@example.com"))] ]

\* the argument with the scope cut down to the scopes the consent screen offers
completionOptions_OfferedScope(oauthReqInfo, email) ==
    [ request |-> oauthReqInfo,
      userId |-> OrElse(email, Str("user@example.com")),
      metadata |-> [label |-> "CMP MCP User"],
      scope |-> SelectSeq(oauthReqInfo.scope,
                          LAMBDA sc : \E k \in 1..Len(oauthScopes) : oauthScopes[k] = sc),
      props |-> [userEmail |-> OrElse(email, Str("user@example.com"))] ]

\* lines 110-120: the argument of completeAuthorization
completionOptions(oauthReqInfo, email) ==
    [ request |-> oauthReqInfo,
      userId |-> OrElse(email, Str("user@example.com")),
      metadata |-> [label |-> "CMP MCP User"],
      scope |-> oauthReqInfo.scope,
      props |-> [userEmail |-> OrElse(email, Str("user@example.com"))] ]

\* the completion call made twice
completionCalls_Twice(oauthReqInfo, email) ==
    IF oauthReqInfo = Null THEN << >>
    ELSE << completionOptions(oauthReqInfo, email), completionOptions(oauthReqInfo, email) >>

\* lines 110-120: the calls of completeAuthorization the handler makes before
\* it responds; none when building the argument fails on a null request
completionCalls(oauthReqInfo, email) ==
    IF oauthReqInfo = Null THEN << >>
    ELSE << completionOptions(oauthReqInfo, email) >>

\* the redirect sent to the request's own redirect URI
approveResponse_OwnUri(oauthReqInfo, redirectTo) ==
    LET redirectUri == oauthReqInfo.redirect_uri
    IN  IF approveIsProgrammatic(redirectUri)
        THEN redirect(redirectUri, 302)
        ELSE html(layout(renderAuthorizationApprovedContent(redirectTo), StatusTitle), 200)

\* lines 124-134
approveResponse(oauthReqInfo, redirectTo) ==
    LET redirectUri == oauthReqInfo.redirect_uri
    IN  IF approveIsProgrammatic(redirectUri)
        THEN redirect(redirectTo, 302)
        ELSE html(layout(renderAuthorizationApprovedContent(redirectTo), StatusTitle), 200)

\* a finished POST /approve: what was submitted, the calls of
\* completeAuthorization made, what the last of them returned, the outcome
Finished(id, body, p, calls, returned, outcome) ==
    [ id |-> id, route |-> "POST /approve", body |-> body, action |-> p.action,
      oauthReqInfo |-> p.oauthReqInfo, email |-> p.email,
      calls |-> calls, returned |-> returned, outcome |-> outcome ]

\* lines 65-120: up to the first response, or to the call of completeAuthorization
ApproveBegin(body) ==
    /\ nExch < MaxExchanges
    /\ nExch' = nExch + 1
    /\ LET p == parseApproveFormBody(body)
           calls == completionCalls(p.oauthReqInfo, p.email)
       IN
       IF ~hasRequest(p.oauthReqInfo)
       THEN /\ last' = Finished(nExch + 1, body, p, << >>, Undefined,
                                html("INVALID LOGIN", 401))
            /\ UNCHANGED inflight
       ELSE IF isReject(p.action)
       THEN /\ last' = Finished(nExch + 1, body, p, << >>, Undefined,
                                rejectResponse(p.oauthReqInfo))
            /\ UNCHANGED inflight
       ELSE IF loginRejected(p.action, p.email)
       THEN /\ last' = Finished(nExch + 1, body, p, << >>, Undefined,
                                html(layout(renderAuthorizationRejectedContent("/"),
                                            StatusTitle), 200))
            /\ UNCHANGED inflight
       ELSE IF calls = << >>
       THEN /\ last' = Finished(nExch + 1, body, p, << >>, Undefined, NullRead("scope"))
            /\ UNCHANGED inflight
       ELSE /\ inflight' = inflight \cup
                { [ id |-> nExch + 1, body |-> body, p |-> p, calls |-> calls ] }
            /\ UNCHANGED last
    /\ UNCHANGED <<parsed, expired, grants, toolVars, handlerVars>>

\* completeAuthorization returns { redirectTo }: lines 120-135
CompleteReturn(h, redirectTo) ==
    /\ h \in inflight
    /\ inflight' = inflight \ {h}
    /\ grants' = grants \cup {GrantOf(h.calls[i], h.id) : i \in 1..Len(h.calls)}
    /\ last' = Finished(h.id, h.body, h.p, h.calls, redirectTo,
                        approveResponse(h.p.oauthReqInfo, redirectTo))
    /\ UNCHANGED <<parsed, expired, nExch, toolVars, handlerVars>>

\* completeAuthorization fails: the error leaves the handler uncaught
CompleteThrow(h) ==
    /\ h \in inflight
    /\ inflight' = inflight \ {h}
    /\ last' = Finished(h.id, h.body, h.p, h.calls, Undefined,
                        Rejected([t |-> "Error", message |-> "grant store failure"]))
    /\ UNCHANGED <<parsed, expired, grants, nExch, toolVars, handlerVars>>

(* ------------------- JavaScript evaluation in the tools ---------------- *)

Return(value) == [kind |-> "return", value |-> value]

Throw(error) == [kind |-> "throw", error |-> error]

\* an Error object (new Error(message), or the TypeError of a failed read)
ErrorObj(message) == [t |-> "Error", message |-> message]

\* a property of v can be read: reading one of undefined or null raises a TypeError
CanRead(v) == v.t \notin {"undefined", "null"}

ReadError(v, key) ==
    ErrorObj("Cannot read properties of " \o v.t \o " (reading '" \o key \o "')")

\* v[key] for a v that can be read
Get(v, key) ==
    CASE v.t = "object" -> IF key \in DOMAIN v.f THEN v.f[key] ELSE Undefined
      [] v.t = "array" -> IF key = "length" THEN Num(Len(v.e)) ELSE Undefined
      [] v.t = "string" -> IF key = "length" THEN Num(Len(v.s)) ELSE Undefined
      [] OTHER -> Undefined

\* v > 0
GreaterThanZero(v) == v.t = "number" /\ v.n > 0

\* typeof v === "object" for a truthy v
IsObjectType(v) == v.t \in {"object", "array"}

Digits == << "0", "1", "2", "3", "4", "5", "6", "7", "8", "9" >>

RECURSIVE NatToString(_)
NatToString(n) ==
    IF n < 10 THEN Digits[n + 1] ELSE NatToString(n \div 10) \o Digits[(n % 10) + 1]

\* `${v}`
RECURSIVE JsString(_)
JsString(v) ==
    CASE v.t = "string" -> v.s
      [] v.t = "number" -> IF v.n < 0 THEN "-" \o NatToString(-v.n) ELSE NatToString(v.n)
      [] v.t = "object" -> "[object Object]"
      [] v.t = "array" ->
            IF Len(v.e) = 0 THEN ""
            ELSE IF Len(v.e) = 1 THEN (IF CanRead(v.e[1]) THEN JsString(v.e[1]) ELSE "")
            ELSE (IF CanRead(v.e[1]) THEN JsString(v.e[1]) ELSE "")
                    \o "," \o JsString(Arr(Tail(v.e)))
      [] OTHER -> v.t

\* `<label>: ${v || fallback}\n`
FieldLine(label, v, fallback) ==
    label \o ": " \o JsString(OrElse(v, Str(fallback))) \o "\n"

\* `<label>: ${v}\n`
RawLine(label, v, unit) == label \o ": " \o JsString(v) \o unit \o "\n"

\* a run of FieldLine over the properties of o; fields is a sequence of
\* <<label, key, fallback>>
RECURSIVE FieldLines(_, _, _)
FieldLines(prefix, o, fields) ==
    IF fields = << >> THEN ""
    ELSE FieldLine(prefix \o fields[1][1], Get(o, fields[1][2]), fields[1][3])
            \o FieldLines(prefix, o, Tail(fields))

\* { content: [{ type: "text", text }] }
Envelope(text) == [content |-> << [type |-> "text", text |-> text] >>]

\* the catch blocks with one text for every raised value
errorText_Generic(error) == "Unknown error"

\* `${error instanceof Error ? error.message : "Unknown error"}`
errorText(error) == IF error.t = "Error" THEN error.message ELSE "Unknown error"

\* a handler without its catch block
catchError_None(prefix, tried) == tried

\* catch (error) { return { content: [{ type: "text", text: `<prefix>${...}` }] } }
catchError(prefix, tried) ==
    IF tried.kind = "throw"
    THEN Return(Envelope(prefix \o errorText(tried.error)))
    ELSE tried

\* the else branch of every tool: `Query failed: ${response.msg || "Unknown error"}`
queryFailed(response) ==
    Return(Envelope("Query failed: "
                        \o JsString(OrElse(Get(response, "msg"), Str("Unknown error")))))

(* --------------------- ./cmp_client.js (the adapter) ------------------- *)

\* the state codes the query_sim_list schema documents
StateNames ==
    [ c \in {2, 3, 4, 5, 6, 7, 8, 10, 11} |->
        CASE c = 2 -> "Pre-activation" [] c = 3 -> "Test" [] c = 4 -> "Silent"
          [] c = 5 -> "Standby" [] c = 6 -> "Active" [] c = 7 -> "Shutdown"
          [] c = 8 -> "Pause" [] c = 10 -> "Pre-logout" [] c = 11 -> "Logout" ]

getStateName(state) ==
    IF state.t = "number" /\ state.n \in DOMAIN StateNames
    THEN StateNames[state.n]
    ELSE "Unknown (" \o JsString(state) \o ")"

\* the profile status codes the query_euicc_list schema documents
ProfileStatusNames ==
    [ c \in 1..9 |->
        CASE c = 1 -> "Not downloaded" [] c = 2 -> "Downloading" [] c = 3 -> "Downloaded"
          [] c = 4 -> "Enabling" [] c = 5 -> "Enabled" [] c = 6 -> "Disabling"
          [] c = 7 -> "Disabled" [] c = 8 -> "Deleting" [] c = 9 -> "Deleted" ]

getProfileStatusName(status) ==
    IF status.t = "number" /\ status.n \in DOMAIN ProfileStatusNames
    THEN ProfileStatusNames[status.n]
    ELSE "Unknown (" \o JsString(status) \o ")"

\* the profile type table is the adapter's; a code outside it is shown as unknown
getProfileTypeName(type) == "Unknown (" \o JsString(type) \o ")"

\* CMPClient.formatDataUsage: the display string of a byte count
formatDataUsage(bytes) == JsString(bytes) \o " B"

\* new CMPClient(apiKey, apiSecret, endpoint)
CMPClient(apiKey, apiSecret, endpoint, owner) ==
    [ apiKey |-> apiKey, apiSecret |-> apiSecret, endpoint |-> endpoint,
      owner |-> owner ]

(* ------------------------- the four tool handlers ---------------------- *)

SimFields ==
    << <<"IMSI", "imsi", "N/A">>, <<"MSISDN", "msisdn", "N/A">> >>

SimFieldsAfterStatus ==
    << <<"Card Type", "simType", "N/A">>, <<"Enterprise", "enterprise", "N/A">>,
       <<"Data Plan", "enterpriseDataPlan", "N/A">>,
       <<"Activation Time", "activationTime", "N/A">>,
       <<"Expiration Time", "expirationTime", "N/A">>, <<"Label", "label", "None">> >>

\* lines 110-119: one entry of the SIM list
simEntry(sim, index) ==
    "\n" \o NatToString(index) \o ". "
        \o FieldLine("ICCID", Get(sim, "iccid"), "N/A")
        \o FieldLines("   ", sim, SimFields)
        \o "   Status: " \o getStateName(OrElse(Get(sim, "simState"), Num(0))) \o "\n"
        \o FieldLines("   ", sim, SimFieldsAfterStatus)

RECURSIVE simEntries(_, _)
simEntries(list, from) ==
    IF from > Len(list) THEN ""
    ELSE simEntry(list[from], from) \o simEntries(list, from + 1)

\* an array's forEach reads a property of each element
AllReadable(list) == \A i \in 1..Len(list) : CanRead(list[i])

FirstUnreadable(list) == list[CHOOSE i \in 1..Len(list) :
                                /\ ~CanRead(list[i])
                                /\ \A j \in 1..(i - 1) : CanRead(list[j])]

\* lines 98-125: response.code === 200
simListSuccess(response) ==
    LET data == Get(response, "data") IN
    IF ~CanRead(data) THEN Throw(ReadError(data, "list"))
    ELSE
    LET simList == OrElse(Get(data, "list"), Arr(<< >>))
        head == "SIM Query Results\n"
                    \o RawLine("Current Page", Get(data, "current"), "")
                    \o RawLine("Page Size", Get(data, "size"), "")
                    \o RawLine("Total Pages", Get(data, "pages"), "")
                    \o RawLine("Total Records", Get(data, "total"), "") \o "\n"
    IN  IF GreaterThanZero(Get(simList, "length"))
        THEN IF simList.t /= "array"
             THEN Throw(ErrorObj("simList.forEach is not a function"))
             ELSE IF ~AllReadable(simList.e)
             THEN Throw(ReadError(FirstUnreadable(simList.e), "iccid"))
             ELSE Return(Envelope(head \o "Found " \o NatToString(Len(simList.e))
                                    \o " SIM cards:\n" \o simEntries(simList.e, 1)))
        ELSE Return(Envelope(head \o "No SIM cards found matching the criteria"))

\* line 97
simListIsSuccess(response) == Get(response, "code") = Num(200)

\* lines 94-135: the try block, given how the awaited adapter call settled
simListTry(settled) ==
    IF settled.kind = "throw" THEN settled
    ELSE LET response == settled.value IN
         IF ~CanRead(response) THEN Throw(ReadError(response, "code"))
         ELSE IF simListIsSuccess(response) THEN simListSuccess(response)
         ELSE queryFailed(response)

\* lines 93-146
query_sim_list(settled) == catchError("Failed to query SIM list: ", simListTry(settled))

DetailFields ==
    << <<"SIM ID", "simId", "N/A">>, <<"ICCID", "iccid", "N/A">>,
       <<"MSISDN", "msisdn", "N/A">>, <<"IMEI", "imei", "N/A">>,
       <<"IMSI", "imsi", "N/A">>, <<"Enterprise", "enterprise", "N/A">>,
       <<"Label", "label", "None">> >>

DetailFieldsAfterStatus ==
    << <<"State Change Reason", "simStateChangeReason", "N/A">>,
       <<"Country/Region", "countryRegion", "N/A">>,
       <<"Operator Network", "operatorNetwork", "N/A">>,
       <<"Enterprise Data Plan", "enterpriseDataPlan", "N/A">>,
       <<"Network Type", "networkType", "N/A">>, <<"Card Type", "simType", "N/A">>,
       <<"APN", "apn", "N/A">>, <<"RAT", "rat", "N/A">>,
       <<"Initial Time", "initialTime", "N/A">>,
       <<"Activation Time", "activationTime", "N/A">>,
       <<"Expiration Time", "expirationTime", "N/A">>,
       <<"Last Session Time", "lastSessionTime", "N/A">> >>

IsDigit(c) == \E d \in 1..10 : Digits[d] = c

DigitValue(c) == (CHOOSE d \in 1..10 : Digits[d] = c) - 1

\* the value of the longest prefix of digits of s, as parseInt reads it
RECURSIVE DigitsValue(_, _)
DigitsValue(s, acc) ==
    IF s = "" \/ ~IsDigit(SubSeq(s, 1, 1)) THEN acc
    ELSE DigitsValue(SubSeq(s, 2, Len(s)), 10 * acc + DigitValue(SubSeq(s, 1, 1)))

\* parseInt(s) || 0 for a string without sign or leading blanks: NaN gives 0
parseIntOrZero(s) == DigitsValue(s, 0)

\* the usage passed on as the adapter gave it, a string unparsed
detailUsage_NoParse(sim) == OrElse(Get(sim, "usedDataOfCurrentPeriod"), Num(0))

\* lines 185-189
detailUsage(sim) ==
    LET dataUsage == OrElse(Get(sim, "usedDataOfCurrentPeriod"), Num(0))
    IN  IF dataUsage.t = "string" THEN Num(parseIntOrZero(dataUsage.s)) ELSE dataUsage

\* lines 160-193
simDetailSuccess(response) ==
    LET sim == Get(response, "data") IN
    IF ~CanRead(sim) THEN Throw(ReadError(sim, "simId"))
    ELSE Return(Envelope(
            "SIM Card Details\n"
                \o FieldLines("", sim, DetailFields)
                \o "Status: " \o getStateName(OrElse(Get(sim, "simState"), Num(0))) \o "\n"
                \o FieldLines("", sim, DetailFieldsAfterStatus)
                \o "Current Period Data Usage: "
                \o formatDataUsage(detailUsage(sim)) \o "\n"))

\* line 159
simDetailIsSuccess(response) == Get(response, "code") = Num(200)

simDetailTry(settled) ==
    IF settled.kind = "throw" THEN settled
    ELSE LET response == settled.value IN
         IF ~CanRead(response) THEN Throw(ReadError(response, "code"))
         ELSE IF simDetailIsSuccess(response) THEN simDetailSuccess(response)
         ELSE queryFailed(response)

\* lines 155-214
query_sim_detail(settled) ==
    catchError("Failed to query SIM details: ", simDetailTry(settled))

\* lines 251-258: typeMap[detail.type] || `Type ${detail.type}`
usageTypeName(type) ==
    LET key == JsString(type) IN
    CASE key = "1" -> "Activation Period Plan"
      [] key = "2" -> "Test Period Plan"
      [] key = "3" -> "Data Package"
      [] OTHER -> "Type " \o key

\* lines 260-264: one entry of the usage details
usageEntry(detail, index) ==
    "\n" \o NatToString(index) \o ". " \o JsString(Get(detail, "orderName")) \o "\n"
        \o "   Type: " \o usageTypeName(Get(detail, "type")) \o "\n"
        \o RawLine("   Allowance", Get(detail, "dataAllowance"), " MB")
        \o RawLine("   Used", Get(detail, "dataUsage"), " MB")
        \o RawLine("   Outside Region", Get(detail, "outsideRegionDataUsage"), " MB")

RECURSIVE usageEntries(_, _)
usageEntries(list, from) ==
    IF from > Len(list) THEN ""
    ELSE usageEntry(list[from], from) \o usageEntries(list, from + 1)

\* lines 237-271
simUsageSuccess(response) ==
    LET usage == Get(response, "data") IN
    IF ~CanRead(usage) THEN Throw(ReadError(usage, "iccid"))
    ELSE
    LET details == Get(usage, "dataUsageDetails")
        head == "SIM Usage Details\n"
                    \o RawLine("ICCID", Get(usage, "iccid"), "")
                    \o RawLine("Month", Get(usage, "month"), "")
                    \o RawLine("Total Data Allowance", Get(usage, "totalDataAllowance"), " MB")
                    \o RawLine("Total Data Usage", Get(usage, "totalDataUsage"), " MB")
                    \o RawLine("Remaining Data", Get(usage, "remainingData"), " MB")
                    \o RawLine("Outside Region Usage",
                               Get(usage, "outsideRegionDataUsage"), " MB") \o "\n"
    IN  IF Truthy(details) /\ GreaterThanZero(Get(details, "length"))
        THEN IF details.t /= "array"
             THEN Throw(ErrorObj("usage.dataUsageDetails.forEach is not a function"))
             ELSE IF ~AllReadable(details.e)
             THEN Throw(ReadError(FirstUnreadable(details.e), "type"))
             ELSE Return(Envelope(head \o "Usage Details:\n" \o usageEntries(details.e, 1)))
        ELSE Return(Envelope(head \o "No detailed usage data available"))

\* the usage test without its data-object fallback
simUsageIsSuccess_CodeOnly(response) == Get(response, "code") = Num(200)

\* lines 233-236
simUsageIsSuccess(response) ==
    \/ Get(response, "code") = Num(200)
    \/ (Truthy(Get(response, "data")) /\ IsObjectType(Get(response, "data")))

simUsageTry(settled) ==
    IF settled.kind = "throw" THEN settled
    ELSE LET response == settled.value IN
         IF ~CanRead(response) THEN Throw(ReadError(response, "code"))
         ELSE IF simUsageIsSuccess(response) THEN simUsageSuccess(response)
         ELSE queryFailed(response)

\* lines 226-292
query_sim_usage(settled) ==
    catchError("Failed to query SIM usage: ", simUsageTry(settled))

EuiccFields ==
    << <<"eID", "eid", "N/A">>, <<"ICCID", "iccid", "N/A">>, <<"IMEI", "imei", "N/A">>,
       <<"Enterprise", "enterpriseName", "N/A">>,
       <<"Profile Number", "profileNum", "N/A">> >>

\* lines 338-346: one entry of the eUICC list
euiccEntry(euicc, index) ==
    "\n" \o NatToString(index) \o ". eUICC Device\n"
        \o FieldLines("   ", euicc, EuiccFields)
        \o "   Profile Status: "
        \o getProfileStatusName(OrElse(Get(euicc, "profileStatus"), Num(0))) \o "\n"
        \o "   Profile Type: "
        \o getProfileTypeName(OrElse(Get(euicc, "profileType"), Str("0"))) \o "\n"
        \o FieldLine("   Last Operation", Get(euicc, "lastOperateTime"), "N/A")

RECURSIVE euiccEntries(_, _)
euiccEntries(list, from) ==
    IF from > Len(list) THEN ""
    ELSE euiccEntry(list[from], from) \o euiccEntries(list, from + 1)

\* lines 324-352
euiccListSuccess(response) ==
    LET outer == Get(response, "data") IN
    IF ~CanRead(outer) THEN Throw(ReadError(outer, "data"))
    ELSE
    LET data == OrElse(Get(outer, "data"), outer)
        euiccList == OrElse(Get(data, "list"), Arr(<< >>))
        head == "eUICC List Results\n"
                    \o FieldLine("Request ID", Get(response, "reqId"), "N/A")
                    \o FieldLine("Current Page", Get(data, "current"), "N/A")
                    \o FieldLine("Page Size", Get(data, "size"), "N/A")
                    \o FieldLine("Total Pages", Get(data, "pages"), "N/A")
                    \o FieldLine("Total Records", Get(data, "total"), "N/A") \o "\n"
    IN  IF GreaterThanZero(Get(euiccList, "length"))
        THEN IF euiccList.t /= "array"
             THEN Throw(ErrorObj("euiccList.forEach is not a function"))
             ELSE IF ~AllReadable(euiccList.e)
             THEN Throw(ReadError(FirstUnreadable(euiccList.e), "eid"))
             ELSE Return(Envelope(head \o "Found " \o NatToString(Len(euiccList.e))
                                    \o " eUICC devices:\n" \o euiccEntries(euiccList.e, 1)))
        ELSE Return(Envelope(head \o "No eUICC devices found matching the criteria"))

\* lines 320-323
euiccListIsSuccess(response) ==
    \/ Get(response, "code") = Num(200)
    \/ (Truthy(Get(response, "data")) /\ IsObjectType(Get(response, "data")))

euiccListTry(settled) ==
    IF settled.kind = "throw" THEN settled
    ELSE LET response == settled.value IN
         IF ~CanRead(response) THEN Throw(ReadError(response, "code"))
         ELSE IF euiccListIsSuccess(response) THEN euiccListSuccess(response)
         ELSE queryFailed(response)

\* lines 316-373
query_euicc_list(settled) ==
    catchError("Failed to query eUICC list: ", euiccListTry(settled))

ToolNames == {"query_sim_list", "query_sim_detail", "query_sim_usage", "query_euicc_list"}

\* the callback server.tool registered under a name
toolHandler(tool, settled) ==
    CASE tool = "query_sim_list" -> query_sim_list(settled)
      [] tool = "query_sim_detail" -> query_sim_detail(settled)
      [] tool = "query_sim_usage" -> query_sim_usage(settled)
      [] tool = "query_euicc_list" -> query_euicc_list(settled)

(* ------------------------ adapter responses ---------------------------- *)

Response(code, msg, data) == Obj([code |-> code, msg |-> msg, data |-> data])

Codes == { Undefined, Num(200), Num(500), Str("200") }

Msgs == { Undefined, Str(""), Str("Invalid signature") }

SimA ==
    Obj([ iccid |-> Str("8986001"), imsi |-> Str("460001"), simState |-> Num(6),
          simType |-> Str("eSIM"), label |-> Str(""),
          usedDataOfCurrentPeriod |-> Num(2048) ])

SimB == Obj([ iccid |-> Str("8986002"), simState |-> Num(99),
              usedDataOfCurrentPeriod |-> Str("2048") ])

SimC == Obj([ simId |-> Num(7), usedDataOfCurrentPeriod |-> Str("n/a") ])

SimD == Obj([ simId |-> Num(8), usedDataOfCurrentPeriod |-> Str("0") ])

Page(list) ==
    Obj([ current |-> Num(1), size |-> Num(10), pages |-> Num(1),
          total |-> Num(Len(list)), list |-> Arr(list) ])

UsageDetail ==
    Obj([ orderName |-> Str("Plan A"), type |-> Num(3), dataAllowance |-> Num(1000),
          dataUsage |-> Num(200), outsideRegionDataUsage |-> Num(0) ])

UsageReport(details) ==
    Obj([ iccid |-> Str("8986001"), month |-> Str("202301"),
          totalDataAllowance |-> Num(1000), totalDataUsage |-> Num(200),
          remainingData |-> Num(800), outsideRegionDataUsage |-> Num(0),
          dataUsageDetails |-> details ])

Euicc == Obj([ eid |-> Str("8904"), iccid |-> Str("8986001"), profileStatus |-> Num(5) ])

\* the data an adapter response may carry, well-formed or not
DataOf(tool) ==
    CASE tool = "query_sim_list" ->
            { Undefined, Null, Str("oops"), Arr(<< >>), Page(<< >>), Page(<<SimA>>),
              Page(<<SimA, SimB>>), Page(<<SimA, Null>>), Obj([total |-> Num(0)]),
              Obj([list |-> Str("abc")]) }
      [] tool = "query_sim_detail" ->
            { Undefined, Null, Str("oops"), SimA, SimB, SimC, SimD,
              Obj([iccid |-> Str("8986003")]) }
      [] tool = "query_sim_usage" ->
            { Undefined, Null, Str("oops"), Arr(<< >>), UsageReport(Arr(<< >>)),
              UsageReport(Arr(<<UsageDetail>>)), UsageReport(Arr(<<UsageDetail, Undefined>>)),
              UsageReport(Str("abc")), UsageReport(Undefined) }
      [] tool = "query_euicc_list" ->
            { Undefined, Null, Str("oops"), Arr(<< >>), Page(<< >>), Page(<<Euicc>>),
              Obj([data |-> Page(<<Euicc, Euicc>>)]), Page(<<Null>>),
              Obj([list |-> Str("abc")]) }

\* how the awaited adapter call may settle
Settlements(tool) ==
    { Return(Response(c, m, d)) : c \in Codes, m \in Msgs, d \in DataOf(tool) }
        \cup { Return(Undefined),
               Throw(ErrorObj("fetch failed")),
               Throw(ErrorObj("Unexpected token < in JSON at position 0")),
               Throw(Str("timeout")) }

HandlerInputs ==
    UNION { { [tool |-> tool, settled |-> s] : s \in Settlements(tool) } : tool \in ToolNames }

(* -------------------- a tool handler run on its own -------------------- *)

NotRun == [kind |-> "none"]

NoCall == [tool |-> "none"]

RunHandler ==
    /\ call \in HandlerInputs
    /\ ret = NotRun
    /\ ret' = toolHandler(call.tool, call.settled)
    /\ UNCHANGED <<call, authVars, toolVars>>

(* ----------------------------- MyMCP ----------------------------------- *)

SessionIds == {"s1", "s2"}

Envs ==
    [ CMP_API_KEY : {Undefined, Str(""), Str("key-1")},
      CMP_API_SECRET : {Undefined, Str(""), Str("secret-1")},
      CMP_API_ENDPOINT : {Undefined, Str("https://cmp.test/openapi")} ]

NotStarted == [status |-> "new"]

\* the credential test with && for ||
credentialsMissing_Both(env) == ~Truthy(env.CMP_API_KEY) /\ ~Truthy(env.CMP_API_SECRET)

\* line 40: if (!CMP_API_KEY || !CMP_API_SECRET)
credentialsMissing(env) == ~Truthy(env.CMP_API_KEY) \/ ~Truthy(env.CMP_API_SECRET)

\* init() taking its adapter from one object shared by every session
init_SharedClient(owner, env) ==
    IF credentialsMissing(env)
    THEN [ status |-> "failed", env |-> env, cmpClient |-> Undefined, tools |-> {},
           error |-> ErrorObj("Missing required environment variables: CMP_API_KEY and CMP_API_SECRET must be set in Cloudflare Workers.") ]
    ELSE [ status |-> "ready", env |-> env,
           cmpClient |-> CMPClient(env.CMP_API_KEY, env.CMP_API_SECRET,
                                   OrElse(env.CMP_API_ENDPOINT,
                                          Str("https://cmp.acceleronix.io/gateway/openapi")),
                                   "shared"),
           tools |-> ToolNames, error |-> Undefined ]

\* init() without its last registration
init_ThreeTools(owner, env) ==
    IF credentialsMissing(env)
    THEN [ status |-> "failed", env |-> env, cmpClient |-> Undefined, tools |-> {},
           error |-> ErrorObj("Missing required environment variables: CMP_API_KEY and CMP_API_SECRET must be set in Cloudflare Workers.") ]
    ELSE [ status |-> "ready", env |-> env,
           cmpClient |-> CMPClient(env.CMP_API_KEY, env.CMP_API_SECRET,
                                   OrElse(env.CMP_API_ENDPOINT,
                                          Str("https://cmp.acceleronix.io/gateway/openapi")),
                                   owner),
           tools |-> ToolNames \ {"query_euicc_list"}, error |-> Undefined ]

\* lines 25-375: init() of the object owner, given its env
init(owner, env) ==
    LET CMP_API_ENDPOINT ==
            OrElse(env.CMP_API_ENDPOINT, Str("https://cmp.acceleronix.io/gateway/openapi"))
    IN  IF credentialsMissing(env)
        THEN [ status |-> "failed", env |-> env, cmpClient |-> Undefined, tools |-> {},
               error |-> ErrorObj("Missing required environment variables: CMP_API_KEY and CMP_API_SECRET must be set in Cloudflare Workers.") ]
        ELSE [ status |-> "ready", env |-> env,
               cmpClient |-> CMPClient(env.CMP_API_KEY, env.CMP_API_SECRET,
                                       CMP_API_ENDPOINT, owner),
               tools |-> ToolNames, error |-> Undefined ]

\* the host builds the object with its env and runs init()
InitSession(i, env) ==
    /\ sessions[i] = NotStarted
    /\ sessions' = [sessions EXCEPT ![i] = init(i, env)]
    /\ UNCHANGED <<pending, lastInv, nInv, authVars, handlerVars>>

ToolArgs(tool) ==
    CASE tool = "query_sim_list" -> { Obj(<< >>), Obj([pageNum |-> Num(2)]) }
      [] tool = "query_sim_detail" -> { Obj([iccid |-> Str("8986001")]) }
      [] tool = "query_sim_usage" ->
            { Obj([iccid |-> Str("8986001"), month |-> Str("202301")]) }
      [] tool = "query_euicc_list" -> { Obj(<< >>) }

GoodData(tool) ==
    CASE tool = "query_sim_list" -> Page(<<SimA>>)
      [] tool = "query_sim_detail" -> SimB
      [] tool = "query_sim_usage" -> UsageReport(Arr(<<UsageDetail>>))
      [] tool = "query_euicc_list" -> Page(<<Euicc>>)

\* how the adapter call of an invocation in a session may settle
SessionSettlements(tool) ==
    { Return(Response(Num(200), Undefined, GoodData(tool))),
      Return(Response(Num(200), Undefined, Undefined)),
      Return(Response(Num(500), Str("Invalid signature"), Undefined)),
      Throw(ErrorObj("fetch failed")) }

NoInvocation == [id |-> 0, tool |-> "none"]

\* a registered tool is invoked: its handler runs up to `await this.cmpClient...`
Invoke(i, tool, args) ==
    /\ nInv < MaxInvocations
    /\ sessions[i] /= NotStarted
    /\ tool \in sessions[i].tools
    /\ nInv' = nInv + 1
    /\ pending' = pending \cup
            { [ id |-> nInv + 1, session |-> i, tool |-> tool, args |-> args,
                adapter |-> sessions[i].cmpClient, outbound |-> 1 ] }
    /\ UNCHANGED <<sessions, lastInv, authVars, handlerVars>>

\* the text of an envelope tells a failure
FailureText(r) ==
    /\ r.kind = "return"
    /\ Len(r.value.content[1].text) >= 16
    /\ \/ SubSeq(r.value.content[1].text, 1, 14) = "Query failed: "
       \/ SubSeq(r.value.content[1].text, 1, 16) = "Failed to query "

\* the invocation answered last before p ends was one of p's session and failed
AfterFailure(p) ==
    /\ lastInv /= NoInvocation
    /\ lastInv.session = p.session
    /\ FailureText(lastInv.result)

\* a handler that makes its adapter call a second time when the first one raised
Settle_Retrying(p, settled) ==
    /\ p \in pending
    /\ IF settled.kind = "throw" /\ p.outbound < 2
       THEN /\ pending' = (pending \ {p}) \cup {[p EXCEPT !.outbound = p.outbound + 1]}
            /\ UNCHANGED lastInv
       ELSE /\ pending' = pending \ {p}
            /\ lastInv' = [ id |-> p.id, session |-> p.session, tool |-> p.tool,
                            args |-> p.args, adapter |-> p.adapter,
                            outbound |-> p.outbound, settled |-> settled,
                            afterFailure |-> AfterFailure(p),
                            result |-> toolHandler(p.tool, settled) ]
    /\ UNCHANGED <<sessions, nInv, authVars, handlerVars>>

\* handlers that build their text in a field of the session: the text of the
\* invocation answered before in the same session stays in front
Settle_SharedText(p, settled) ==
    /\ p \in pending
    /\ pending' = pending \ {p}
    /\ LET own == toolHandler(p.tool, settled)
           shared == lastInv /= NoInvocation /\ lastInv.session = p.session
                        /\ lastInv.result.kind = "return" /\ own.kind = "return"
       IN  lastInv' = [ id |-> p.id, session |-> p.session, tool |-> p.tool,
                        args |-> p.args, adapter |-> p.adapter,
                        outbound |-> p.outbound, settled |-> settled,
                            afterFailure |-> AfterFailure(p),
                        result |-> IF shared
                                   THEN Return(Envelope(lastInv.result.value.content[1].text
                                                        \o own.value.content[1].text))
                                   ELSE own ]
    /\ UNCHANGED <<sessions, nInv, authVars, handlerVars>>

\* a raised adapter error that ends the session: its adapter and tools are gone
Settle_Crashing(p, settled) ==
    /\ p \in pending
    /\ pending' = pending \ {p}
    /\ lastInv' = [ id |-> p.id, session |-> p.session, tool |-> p.tool,
                    args |-> p.args, adapter |-> p.adapter, outbound |-> p.outbound,
                    afterFailure |-> AfterFailure(p),
                    settled |-> settled, result |-> toolHandler(p.tool, settled) ]
    /\ sessions' = IF settled.kind = "throw"
                   THEN [sessions EXCEPT ![p.session] =
                            [ status |-> "failed", env |-> sessions[p.session].env,
                              cmpClient |-> Undefined, tools |-> {},
                              error |-> settled.error ]]
                   ELSE sessions
    /\ UNCHANGED <<nInv, authVars, handlerVars>>

\* the adapter call settles and the handler runs to its end
Settle(p, settled) ==
    /\ p \in pending
    /\ pending' = pending \ {p}
    /\ lastInv' = [ id |-> p.id, session |-> p.session, tool |-> p.tool,
                    args |-> p.args, adapter |-> p.adapter, outbound |-> p.outbound,
                    afterFailure |-> AfterFailure(p),
                    settled |-> settled, result |-> toolHandler(p.tool, settled) ]
    /\ UNCHANGED <<sessions, nInv, authVars, handlerVars>>

(* --------------------------- specifications ---------------------------- *)

NoExchange == [id |-> 0, route |-> "none"]

InitAuth ==
    /\ parsed = {}
    /\ expired = {}
    /\ grants = {}
    /\ inflight = {}
    /\ last = NoExchange
    /\ nExch = 0

InitTools ==
    /\ sessions = [i \in SessionIds |-> NotStarted]
    /\ pending = {}
    /\ lastInv = NoInvocation
    /\ nInv = 0

Init ==
    /\ InitAuth
    /\ InitTools
    /\ call = NoCall
    /\ ret = NotRun

\* the authorization pages
Next ==
    \/ \E raw \in RawAuthRequests : Authorize(raw)
    \/ \E req \in AuthRequests : ExpireState(req)
    \/ \E body \in FormBodies : ApproveBegin(body)
    \/ \E h \in inflight, redirectTo \in RedirectTargets : CompleteReturn(h, redirectTo)
    \/ \E h \in inflight : CompleteThrow(h)

Spec == Init /\ [][Next]_vars

\* the sessions and their tool invocations
NextTools ==
    \/ \E i \in SessionIds, env \in Envs : InitSession(i, env)
    \/ \E i \in SessionIds, tool \in ToolNames : \E args \in ToolArgs(tool) :
            Invoke(i, tool, args)
    \/ \E p \in pending : \E settled \in SessionSettlements(p.tool) : Settle(p, settled)

SpecTools == Init /\ [][NextTools]_vars

\* one session on its own
NextSession ==
    \/ \E env \in Envs : InitSession("s1", env)
    \/ \E tool \in ToolNames : \E args \in ToolArgs(tool) : Invoke("s1", tool, args)
    \/ \E p \in pending : \E settled \in SessionSettlements(p.tool) : Settle(p, settled)

\* the awaited adapter call of a waiting invocation settles in the end, by a
\* response or by an error
SpecSessionFair ==
    /\ Init
    /\ [][NextSession]_vars
    /\ WF_vars(\E p \in pending : \E settled \in SessionSettlements(p.tool) :
                    Settle(p, settled))

\* one handler applied to every way its adapter call may settle
InitHandlers ==
    /\ InitAuth
    /\ InitTools
    /\ call \in HandlerInputs
    /\ ret = NotRun

SpecHandlers == InitHandlers /\ [][RunHandler]_vars

(* ------------------------------ claims --------------------------------- *)

\* the redirect URI carries a programmatic-client marker
HasClientMarker(uri) ==
    uri.t = "string" /\ (includes(uri.s, "claude.ai") \/ includes(uri.s, "mcp"))

\* x is a finished POST /approve on a recovered request
Recovered(x) == x.route = "POST /approve" /\ x.oauthReqInfo /= Null

\* x is a finished POST /approve that decided reject on a recovered request
RejectDecision(x) == Recovered(x) /\ x.action = Str("reject")

\* x is a finished POST /approve that decided approve or login_approve
ApprovedDecision(x) ==
    Recovered(x) /\ x.action \in {Str("approve"), Str("login_approve")}

RejectedPage == layout(renderAuthorizationRejectedContent("/"), StatusTitle)

\* C1: a reject on a recovered request whose redirect URI carries a marker is
\* answered by a 302 whose Location carries error=access_denied and no page; one
\* whose redirect URI carries no marker is answered by the HTML rejection page
\* and no redirect; never the other way round.
C1_RejectRouting ==
    RejectDecision(last) =>
        /\ last.outcome.kind = "response"
        /\ IF HasClientMarker(last.oauthReqInfo.redirect_uri)
           THEN /\ last.outcome.status = 302
                /\ last.outcome.body = Null
                /\ last.outcome.location.t = "string"
                /\ includes(last.outcome.location.s, "error=access_denied")
           ELSE /\ last.outcome.status = 200
                /\ last.outcome.body = RejectedPage
                /\ last.outcome.location = Undefined

C1_Witness ==
    /\ RejectDecision(last)
    /\ includes(last.oauthReqInfo.redirect_uri.s, "mcp")
    /\ ~includes(last.oauthReqInfo.redirect_uri.s, "claude.ai")
    /\ last.outcome.status = 302

\* C2: an approve or login_approve on a recovered request, once the grant store
\* has returned redirectTo, is answered by a 302 to exactly redirectTo with no
\* body when the redirect URI carries a marker, and by the HTML approval page
\* otherwise; the test of the redirect URI is the one the reject branch uses.
C2_ApproveRouting ==
    /\ \A uri \in RedirectUris \cup {Undefined, Str("")} :
            approveIsProgrammatic(uri) = rejectIsProgrammatic(uri)
    /\ (ApprovedDecision(last) /\ last.outcome.kind = "response") =>
            IF HasClientMarker(last.oauthReqInfo.redirect_uri)
            THEN /\ last.outcome.status = 302
                 /\ last.outcome.location = last.returned
                 /\ last.returned \in RedirectTargets
                 /\ last.outcome.body = Null
            ELSE /\ last.outcome.status = 200
                 /\ last.outcome.location = Undefined
                 /\ last.outcome.body =
                        layout(renderAuthorizationApprovedContent(last.returned), StatusTitle)

C2_Witness ==
    /\ ApprovedDecision(last)
    /\ last.email = Str("a@b.com")
    /\ includes(last.oauthReqInfo.redirect_uri.s, "claude.ai")
    /\ last.outcome.kind = "response"
    /\ last.outcome.status = 302
    /\ last.outcome.location /= last.oauthReqInfo.redirect_uri

\* the requests completeAuthorization has been called for
CompletedRequests ==
    {g.request : g \in grants}
        \cup UNION {{h.calls[i].request : i \in 1..Len(h.calls)} : h \in inflight}
        \cup (IF last.route = "POST /approve"
              THEN {last.calls[i].request : i \in 1..Len(last.calls)} ELSE {})

\* C3: every request completeAuthorization has been called for is one that
\* parseAuthRequest returned at GET /authorize before, whatever forms were
\* submitted.
C3_GrantOnlyForParsed == CompletedRequests \subseteq parsed

C3_Witness ==
    /\ grants /= {}
    /\ \E g \in grants : g.request \in parsed

\* C4: an approve or login_approve on a recovered request makes exactly one
\* call of completeAuthorization, and the call is made before the response: the
\* handler that responds was suspended in that one call.
C4_OneCallBeforeResponse ==
    /\ [](/\ ApprovedDecision(last) => Len(last.calls) = 1
          /\ \A h \in inflight : Len(h.calls) = 1)
    /\ [][(last' /= last /\ ApprovedDecision(last')) =>
            \E h \in inflight :
                /\ h.id = last'.id
                /\ h \notin inflight'
                /\ h.calls = last'.calls
                /\ Len(h.calls) = 1]_vars

C4_Witness ==
    /\ ApprovedDecision(last)
    /\ last.outcome.kind = "response"
    /\ Len(last.calls) = 1
    /\ \E g \in grants : g.by = last.id

\* C5: a POST /approve from whose form no request is recovered is answered 401
\* whatever its action, makes no call of completeAuthorization and no redirect,
\* and leaves the grant store as it was.
C5_NoRequestUnauthorized ==
    /\ []((last.route = "POST /approve" /\ last.oauthReqInfo = Null) =>
            /\ last.outcome = html("INVALID LOGIN", 401)
            /\ last.outcome.location = Undefined
            /\ last.calls = << >>
            /\ \A g \in grants : g.by /= last.id)
    /\ [](\A h \in inflight : h.p.oauthReqInfo /= Null)
    /\ [][(last' /= last /\ last'.route = "POST /approve" /\ last'.oauthReqInfo = Null)
            => grants' = grants]_vars

C5_Witness ==
    /\ last.route = "POST /approve"
    /\ last.oauthReqInfo = Null
    /\ last.action = Str("approve")
    /\ last.body.oauthReqInfo.t = "token"
    /\ last.outcome.status = 401

\* C6: a reject on a recovered request never calls completeAuthorization: the
\* handling makes no call, is never suspended in one, and no grant comes of it.
C6_RejectNeverCompletes ==
    /\ RejectDecision(last) =>
            /\ last.calls = << >>
            /\ \A g \in grants : g.by /= last.id
    /\ \A h \in inflight : h.p.action /= Str("reject")

C6_Witness ==
    /\ RejectDecision(last)
    /\ last.outcome.kind = "response"
    /\ grants = {}

\* s begins with prefix
StartsWith(s, prefix) == Len(s) >= Len(prefix) /\ SubSeq(s, 1, Len(prefix)) = prefix

\* the first line of a tool's success text
SuccessHead(tool) ==
    CASE tool = "query_sim_list" -> "SIM Query Results\n"
      [] tool = "query_sim_detail" -> "SIM Card Details\n"
      [] tool = "query_sim_usage" -> "SIM Usage Details\n"
      [] tool = "query_euicc_list" -> "eUICC List Results\n"

\* the handler returned a well-shaped envelope: one text block
IsEnvelope(r) ==
    /\ r.kind = "return"
    /\ DOMAIN r.value = {"content"}
    /\ Len(r.value.content) = 1
    /\ DOMAIN r.value.content[1] = {"type", "text"}
    /\ r.value.content[1].type = "text"
    /\ r.value.content[1].text \in STRING

IsSuccessEnvelope(tool, r) ==
    IsEnvelope(r) /\ StartsWith(r.value.content[1].text, SuccessHead(tool))

IsFailureEnvelope(r) ==
    /\ IsEnvelope(r)
    /\ \/ StartsWith(r.value.content[1].text, "Query failed: ")
       \/ StartsWith(r.value.content[1].text, "Failed to query ")

\* C7: whatever way the adapter call settles (success response, non-success
\* response, success code with missing or malformed data, a raised error), the
\* handler of each of the four tools returns one envelope holding one text
\* block; no error leaves the handler.
C7_AlwaysOneEnvelope == (ret /= NotRun) => IsEnvelope(ret)

C7_Witness ==
    /\ ret /= NotRun
    /\ call.settled.kind = "return"
    /\ call.settled.value /= Undefined
    /\ Get(call.settled.value, "code") = Num(200)
    /\ Get(call.settled.value, "data") = Undefined
    /\ IsFailureEnvelope(ret)

\* the adapter returned a response carrying this code
CodeIs200(settled) ==
    /\ settled.kind = "return"
    /\ CanRead(settled.value)
    /\ Get(settled.value, "code") = Num(200)

\* the adapter returned a response carrying a data object
HasDataObject(settled) ==
    /\ settled.kind = "return"
    /\ CanRead(settled.value)
    /\ Get(settled.value, "data").t \in {"object", "array"}

\* entries, when there are any, are an array of values that are not null or
\* undefined
EntriesWellFormed(entries) ==
    \/ ~Truthy(entries)
    \/ ~GreaterThanZero(Get(entries, "length"))
    \/ (entries.t = "array" /\ \A i \in 1..Len(entries.e) : CanRead(entries.e[i]))

\* the response's data can be formatted by the tool: it is there, and its
\* entries are well-formed
DataWellFormed(tool, settled) ==
    /\ settled.kind = "return"
    /\ CanRead(settled.value)
    /\ LET data == Get(settled.value, "data") IN
       /\ CanRead(data)
       /\ CASE tool = "query_sim_usage" ->
                    EntriesWellFormed(Get(data, "dataUsageDetails"))
            [] tool = "query_euicc_list" ->
                    EntriesWellFormed(Get(OrElse(Get(data, "data"), data), "list"))
            [] tool = "query_sim_list" -> EntriesWellFormed(Get(data, "list"))
            [] OTHER -> TRUE

StrictTools == {"query_sim_list", "query_sim_detail"}

LenientTools == {"query_sim_usage", "query_euicc_list"}

\* C8 as stated: list and detail succeed only on code 200; usage and eUICC list
\* succeed if and only if the code is 200 or a data object is there; every other
\* result is a failure envelope.
C8_AsStated ==
    (ret /= NotRun) =>
        /\ (call.tool \in StrictTools /\ IsSuccessEnvelope(call.tool, ret))
                => CodeIs200(call.settled)
        /\ call.tool \in LenientTools =>
                (IsSuccessEnvelope(call.tool, ret)
                    <=> (CodeIs200(call.settled) \/ HasDataObject(call.settled)))
        /\ ~IsSuccessEnvelope(call.tool, ret) => IsFailureEnvelope(ret)

\* C8, amended: list and detail succeed only on code 200, a data object
\* notwithstanding; usage and eUICC list succeed if and only if the code is 200
\* or a data object is there, and the data can be formatted (it is not missing
\* and its entries are well-formed); every other result is a failure envelope.
C8_StatusCodePolicy ==
    (ret /= NotRun) =>
        /\ (call.tool \in StrictTools /\ IsSuccessEnvelope(call.tool, ret))
                => CodeIs200(call.settled)
        /\ call.tool \in LenientTools =>
                (IsSuccessEnvelope(call.tool, ret)
                    <=> /\ CodeIs200(call.settled) \/ HasDataObject(call.settled)
                        /\ DataWellFormed(call.tool, call.settled))
        /\ ~IsSuccessEnvelope(call.tool, ret) => IsFailureEnvelope(ret)

C8_Witness ==
    /\ ret /= NotRun
    /\ call.tool = "query_sim_usage"
    /\ ~CodeIs200(call.settled)
    /\ HasDataObject(call.settled)
    /\ IsSuccessEnvelope(call.tool, ret)

\* the key or the secret of an env is absent or empty
CredentialAbsent(env) ==
    \/ env.CMP_API_KEY \in {Undefined, Str("")}
    \/ env.CMP_API_SECRET \in {Undefined, Str("")}

\* C9: init() of a session whose env lacks the key or the secret (absent or
\* empty) fails with an error and initializes nothing: no adapter is
\* constructed, no tool is registered, and no tool is ever invoked there.
C9_MissingCredentialsFatal ==
    \A i \in SessionIds :
        (sessions[i] /= NotStarted /\ CredentialAbsent(sessions[i].env)) =>
            /\ sessions[i].status = "failed"
            /\ sessions[i].error.t = "Error"
            /\ sessions[i].cmpClient = Undefined
            /\ sessions[i].tools = {}
            /\ \A p \in pending : p.session /= i
            /\ lastInv.id /= 0 => lastInv.session /= i

C9_Witness ==
    \E i \in SessionIds :
        /\ sessions[i] /= NotStarted
        /\ sessions[i].env.CMP_API_KEY = Str("key-1")
        /\ sessions[i].env.CMP_API_SECRET = Str("")
        /\ sessions[i].status = "failed"

\* C10 as stated: when parseAuthRequest fails at GET /authorize, the exchange
\* ends in an unauthorized (401) response and no consent screen is rendered.
C10_AsStated ==
    (last.route = "GET /authorize" /\ last.parse.kind = "throw") =>
        /\ last.outcome.kind = "response"
        /\ last.outcome.status = 401

(* ------------------------- claims C11 to C20 --------------------------- *)

\* a finished GET /authorize whose request parseAuthRequest returned
ScreenServed(e) == e.route = "GET /authorize" /\ e.parse.kind = "return"

\* the variant of the consent screen a response carries
Variant(outcome) ==
    IF outcome.kind = "response" /\ outcome.body /= Null
    THEN outcome.body.content.page ELSE "none"

\* the variant the specification assigns to a value of the authenticated flag
VariantFor(flag) == IF flag THEN "LoggedInAuthorize" ELSE "LoggedOutAuthorize"

LoginApprove(x) ==
    /\ x.oauthReqInfo /= Null
    /\ x.action = Str("login_approve")
    /\ x.email.t = "string" /\ x.email.s /= ""

\* the call an approve makes for a request and a non-empty identity
ApproveCall(request, email) ==
    [ request |-> request, userId |-> email, metadata |-> [label |-> "CMP MCP User"],
      scope |-> request.scope, props |-> [userEmail |-> email] ]

\* C12: a login_approve with a non-empty submitted identity is never refused:
\* it makes the one completeAuthorization call an approve makes for the same
\* request and identity (same request, userId, metadata, scope, props), and
\* once the grant store has returned it is answered as an approve is, by a 302
\* to redirectTo or by the approval page.
C12_LoginApproveAsApprove ==
    /\ (last.route = "POST /approve" /\ LoginApprove(last)) =>
            /\ last.calls = << ApproveCall(last.oauthReqInfo, last.email) >>
            /\ last.outcome.kind = "response" =>
                    /\ last.outcome.status \in {200, 302}
                    /\ last.outcome.status = 302 => last.outcome.location = last.returned
                    /\ last.outcome.status = 200 =>
                            last.outcome.body.content.page = "AuthorizationApproved"
    /\ \A h \in inflight :
            h.p.action \in {Str("approve"), Str("login_approve")}
                /\ h.p.email.t = "string" /\ h.p.email.s /= ""
            => h.calls = << ApproveCall(h.p.oauthReqInfo, h.p.email) >>

C12_Witness ==
    /\ last.route = "POST /approve"
    /\ LoginApprove(last)
    /\ last.email = Str("a@b.com")
    /\ last.outcome.kind = "response"
    /\ last.outcome.status = 200
    /\ \E g \in grants : g.by = last.id /\ g.userId = Str("a@b.com")

\* s ends with suffix
EndsWith(s, suffix) ==
    Len(s) >= Len(suffix) /\ SubSeq(s, Len(s) - Len(suffix) + 1, Len(s)) = suffix

\* query_sim_detail has run on a response of code 200 that carries a record
DetailFormatted ==
    /\ ret /= NotRun
    /\ call.tool = "query_sim_detail"
    /\ call.settled.kind = "return"
    /\ CanRead(call.settled.value)
    /\ Get(call.settled.value, "code") = Num(200)
    /\ Get(call.settled.value, "data").t = "object"

\* the usage numbers the detail records are read against
UsageNumbers == {0, 2048}

\* the number a usedDataOfCurrentPeriod stands for: an integer for itself, a
\* string of decimal digits for the integer written so, anything else for 0
UsageMeant(u) ==
    IF u.t = "number" THEN u.n
    ELSE IF u.t = "string" /\ \E n \in UsageNumbers : NatToString(n) = u.s
    THEN CHOOSE n \in UsageNumbers : NatToString(n) = u.s
    ELSE 0

\* C15: query_sim_detail hands the formatter the number its record's
\* usedDataOfCurrentPeriod stands for, the same for the string "2048" as for
\* the integer 2048, and 0 when the value is missing or cannot be parsed; the
\* last line of the text is that number formatted.
C15_UsageStringAsNumber ==
    DetailFormatted =>
        LET sim == Get(call.settled.value, "data")
            usage == UsageMeant(Get(sim, "usedDataOfCurrentPeriod"))
        IN  /\ detailUsage(sim) = Num(usage)
            /\ IsSuccessEnvelope("query_sim_detail", ret)
            /\ EndsWith(ret.value.content[1].text,
                        "Current Period Data Usage: " \o formatDataUsage(Num(usage)) \o "\n")

C15_Witness ==
    /\ DetailFormatted
    /\ Get(Get(call.settled.value, "data"), "usedDataOfCurrentPeriod") = Str("2048")
    /\ detailUsage(Get(call.settled.value, "data")) = detailUsage(SimA)
    /\ IsSuccessEnvelope("query_sim_detail", ret)

\* an invocation has run to its end
Answered(x) == x /= NoInvocation

\* the adapter call of x did not give a response of code 200
UpstreamFailed(x) ==
    \/ x.settled.kind = "throw"
    \/ /\ x.settled.kind = "return"
       /\ CanRead(x.settled.value)
       /\ Get(x.settled.value, "code") = Num(500)

\* C16: an invocation makes one outbound adapter call and no more: while it
\* waits and when it has ended its count of adapter calls is 1, an invocation
\* that has ended waits for no further call, and a call that raised or gave a
\* non-success response ends the invocation with a failure envelope.
C16_NoRetry ==
    /\ \A p \in pending : p.outbound = 1
    /\ Answered(lastInv) =>
            /\ lastInv.outbound = 1
            /\ \A p \in pending : p.id /= lastInv.id
            /\ UpstreamFailed(lastInv) => IsFailureEnvelope(lastInv.result)

C16_Witness ==
    /\ Answered(lastInv)
    /\ lastInv.settled = Throw(ErrorObj("fetch failed"))
    /\ lastInv.tool = "query_euicc_list"
    /\ lastInv.outbound = 1
    /\ pending = {}

\* the invocation x runs in a session whose init() has built the adapter x
\* uses and registered the tool x calls
ServedAfterInit(x) ==
    /\ sessions[x.session].status = "ready"
    /\ x.tool \in sessions[x.session].tools
    /\ x.adapter = sessions[x.session].cmpClient

\* C17: a session's init() builds its adapter and registers its tools once,
\* before any invocation is serviced: a session that is ready holds exactly the
\* four tools and an adapter built for it from its env, every invocation waiting
\* or ended belongs to a ready session and uses that adapter, and once init()
\* has run nothing, invocations included, changes the session's registry or
\* adapter.
C17_InitOnceThenFixed ==
    /\ [](\A i \in SessionIds : sessions[i].status = "ready" =>
            /\ sessions[i].tools = { "query_sim_list", "query_sim_detail",
                                     "query_sim_usage", "query_euicc_list" }
            /\ sessions[i].cmpClient.owner = i
            /\ sessions[i].cmpClient.apiKey = sessions[i].env.CMP_API_KEY
            /\ sessions[i].cmpClient.apiSecret = sessions[i].env.CMP_API_SECRET)
    /\ [](\A p \in pending : ServedAfterInit(p))
    /\ [](Answered(lastInv) => ServedAfterInit(lastInv))
    /\ [][\A i \in SessionIds :
            sessions[i] /= NotStarted => sessions'[i] = sessions[i]]_vars
    /\ [][(pending' /= pending \/ lastInv' /= lastInv) => sessions' = sessions]_vars

C17_Witness ==
    /\ Answered(lastInv)
    /\ lastInv.tool = "query_sim_detail"
    /\ sessions[lastInv.session].status = "ready"
    /\ sessions[lastInv.session].tools = ToolNames
    /\ \E p \in pending : p.session = lastInv.session /\ p.tool = "query_euicc_list"

\* C18: whatever the interleaving of the adapter calls of the invocations of a
\* session, an invocation that has ended has the envelope its handler gives
\* for its own tool and its own upstream response when run alone, and the
\* invocations still waiting keep the tool, the arguments and the adapter they
\* were issued with.
C18_NoInterference ==
    /\ Answered(lastInv) =>
            /\ lastInv.result = toolHandler(lastInv.tool, lastInv.settled)
            /\ lastInv.args \in ToolArgs(lastInv.tool)
            /\ lastInv.adapter = sessions[lastInv.session].cmpClient
    /\ \A p \in pending :
            /\ p.args \in ToolArgs(p.tool)
            /\ p.adapter = sessions[p.session].cmpClient
    /\ \A p, q \in pending : p.id = q.id => p = q

C18_Witness ==
    /\ Answered(lastInv)
    /\ lastInv.id = 2
    /\ lastInv.tool = "query_sim_list"
    /\ IsSuccessEnvelope("query_sim_list", lastInv.result)
    /\ \E p \in pending :
            /\ p.id = 1
            /\ p.session = lastInv.session
            /\ p.tool = "query_sim_detail"

\* C19: a failed tool call does not take its session down: after an invocation
\* has ended in a failure its session is still ready with its four tools and
\* its adapter, a further invocation of the session can be issued while the
\* budget of invocations lasts, and every invocation issued, after failures or
\* not, is in the end answered with an envelope.
C19_SessionSurvivesFailure ==
    /\ []((Answered(lastInv) /\ IsFailureEnvelope(lastInv.result)) =>
            /\ sessions[lastInv.session].status = "ready"
            /\ sessions[lastInv.session].tools = ToolNames
            /\ sessions[lastInv.session].cmpClient = lastInv.adapter
            /\ nInv < MaxInvocations =>
                    \A tool \in ToolNames : \A args \in ToolArgs(tool) :
                        ENABLED Invoke(lastInv.session, tool, args))
    /\ [](Answered(lastInv) => IsEnvelope(lastInv.result))
    /\ \A id \in 1..MaxInvocations :
            (\E p \in pending : p.id = id)
                ~> (Answered(lastInv) /\ lastInv.id = id /\ IsEnvelope(lastInv.result))

C19_Witness ==
    /\ Answered(lastInv)
    /\ lastInv.afterFailure
    /\ lastInv.id = 2
    /\ IsSuccessEnvelope(lastInv.tool, lastInv.result)
    /\ sessions[lastInv.session].status = "ready"

\* the words a tool's catch block puts before the error
CatchPrefix(tool) ==
    CASE tool = "query_sim_list" -> "Failed to query SIM list: "
      [] tool = "query_sim_detail" -> "Failed to query SIM details: "
      [] tool = "query_sim_usage" -> "Failed to query SIM usage: "
      [] tool = "query_euicc_list" -> "Failed to query eUICC list: "

\* the adapter returned a response the tool classifies as non-success
NonSuccess(tool, settled) ==
    /\ settled.kind = "return"
    /\ CanRead(settled.value)
    /\ ~CodeIs200(settled)
    /\ tool \in LenientTools => ~HasDataObject(settled)

\* the text of the one block of an envelope
TextOf(r) == r.value.content[1].text

\* C20: an upstream failure is reported with the upstream message: on a
\* response classified as non-success the text is 'Query failed: ' and the
\* response's msg, or 'Unknown error' when msg is absent or empty; when the
\* adapter call raises, the text is the tool's 'Failed to query ...: ' and the
\* error's message, or 'Unknown error' when the raised value is not an Error.
C20_FailureCarriesMessage ==
    (ret /= NotRun) =>
        /\ NonSuccess(call.tool, call.settled) =>
                /\ IsEnvelope(ret)
                /\ LET msg == Get(call.settled.value, "msg") IN
                   TextOf(ret) = "Query failed: " \o
                        (IF msg.t = "string" /\ msg.s /= "" THEN msg.s ELSE "Unknown error")
        /\ call.settled.kind = "throw" =>
                /\ IsEnvelope(ret)
                /\ LET raised == call.settled.error IN
                   TextOf(ret) = CatchPrefix(call.tool) \o
                        (IF raised.t = "Error" THEN raised.message ELSE "Unknown error")

C20_Witness ==
    /\ ret /= NotRun
    /\ call.tool = "query_sim_usage"
    /\ NonSuccess(call.tool, call.settled)
    /\ Get(call.settled.value, "code") = Num(500)
    /\ TextOf(ret) = "Query failed: Invalid signature"

(* ------------------------- claims C21 to C24 --------------------------- *)

\* the invocation x calls the adapter its own session built, and no other
OwnAdapter(x) ==
    /\ x.adapter.owner = x.session
    /\ x.adapter = sessions[x.session].cmpClient
    /\ \A j \in SessionIds \ {x.session} :
            sessions[j].status = "ready" => x.adapter /= sessions[j].cmpClient

\* C21: sessions are isolated: a ready session's adapter is its own object,
\* built from the key, secret and endpoint of its own env and shared with no
\* other session even when their credentials are the same; an invocation,
\* waiting or ended, calls only the adapter of its session; and a step that
\* changes one session, its init() included, leaves every other session's
\* adapter and registry as they were, while invocations change none.
C21_SessionsIsolated ==
    /\ [](\A i \in SessionIds : sessions[i].status = "ready" =>
            /\ sessions[i].cmpClient.owner = i
            /\ sessions[i].cmpClient.apiKey = sessions[i].env.CMP_API_KEY
            /\ sessions[i].cmpClient.apiSecret = sessions[i].env.CMP_API_SECRET
            /\ \A j \in SessionIds \ {i} :
                    sessions[j].status = "ready" =>
                        sessions[j].cmpClient /= sessions[i].cmpClient)
    /\ [](\A p \in pending : OwnAdapter(p))
    /\ [](Answered(lastInv) => OwnAdapter(lastInv))
    /\ [][\A i \in SessionIds :
            sessions'[i] /= sessions[i] =>
                /\ sessions[i] = NotStarted
                /\ pending' = pending /\ lastInv' = lastInv
                /\ \A j \in SessionIds \ {i} : sessions'[j] = sessions[j]]_vars

C21_Witness ==
    /\ sessions["s1"].status = "ready"
    /\ sessions["s2"].status = "ready"
    /\ sessions["s1"].env = sessions["s2"].env
    /\ sessions["s1"].cmpClient /= sessions["s2"].cmpClient
    /\ Answered(lastInv) /\ lastInv.session = "s2" /\ lastInv.adapter.owner = "s2"
    /\ \E p \in pending : p.session = "s1" /\ p.adapter.owner = "s1"

\* C22: on a POST /approve with a recovered request every action other than
\* 'reject' (approve, login_approve, none, an unknown word) makes the call of
\* completeAuthorization, and a grant comes of it when the grant store returns;
\* a 'reject' and a submission without a recovered request make no call and
\* issue no grant, and they are the only ones.
C22_OnlyRejectWithholdsGrant ==
    /\ last.route = "POST /approve" =>
            /\ (last.oauthReqInfo /= Null /\ last.action /= Str("reject")) =>
                    /\ Len(last.calls) = 1
                    /\ last.calls[1].request = last.oauthReqInfo
                    /\ last.outcome.kind = "response" =>
                            \E g \in grants :
                                g.by = last.id /\ g.request = last.oauthReqInfo
            /\ (last.oauthReqInfo = Null \/ last.action = Str("reject")) =>
                    /\ last.calls = << >>
                    /\ \A g \in grants : g.by /= last.id
    /\ \A h \in inflight :
            /\ h.p.oauthReqInfo /= Null
            /\ h.p.action /= Str("reject")
            /\ Len(h.calls) = 1
    /\ \A g \in grants : g.by \in 1..nExch

C22_Witness ==
    /\ last.route = "POST /approve"
    /\ last.oauthReqInfo /= Null
    /\ last.action = Str("delete")
    /\ Len(last.calls) = 1
    /\ last.outcome.kind = "response"
    /\ \E g \in grants : g.by = last.id

\* the identity a completion is made for, given the email the form submitted
IdentityFor(email) ==
    IF email.t = "string" /\ email.s /= "" THEN email ELSE Str("user@example.com")

\* the calls of completeAuthorization of a handler are made for the identity
\* of the email it was submitted
CallsCarryIdentity(calls, email) ==
    \A k \in 1..Len(calls) :
        /\ calls[k].userId = calls[k].props.userEmail
        /\ calls[k].userId = IdentityFor(email)
        /\ DOMAIN calls[k].props = {"userEmail"}

\* C23: in every call of completeAuthorization, made or returned, userId equals
\* props.userEmail, and both are the submitted email when it is not empty and
\* 'user@example.com' when it is empty or absent; a grant is thus completed
\* for the default identity when none was submitted.
C23_UserIdIsEmailOrDefault ==
    /\ \A h \in inflight : CallsCarryIdentity(h.calls, h.p.email)
    /\ last.route = "POST /approve" =>
            /\ CallsCarryIdentity(last.calls, last.email)
            /\ \A g \in grants : g.by = last.id => g.userId = IdentityFor(last.email)
    /\ \A g \in grants :
            /\ g.userId = g.props.userEmail
            /\ g.userId.t = "string" /\ g.userId.s /= ""

C23_Witness ==
    /\ last.route = "POST /approve"
    /\ last.email = Undefined
    /\ last.action = Str("approve")
    /\ \E g \in grants :
            /\ g.by = last.id
            /\ g.userId = Str("user@example.com")
            /\ g.props.userEmail = Str("user@example.com")

\* the scopes the consent screen offers
OfferedScopes == {"read_profile", "read_data", "write_data"}

\* the scopes of a sequence
ScopesOf(scope) == {scope[k] : k \in 1..Len(scope)}

\* C24: the scope of every call of completeAuthorization and of every grant is
\* the scope sequence of the request it is made for, as the request carries
\* it, in the same order and with nothing taken out, scopes the consent screen
\* does not offer included.
C24_ScopePassedThrough ==
    /\ \A h \in inflight :
            \A k \in 1..Len(h.calls) :
                /\ h.calls[k].scope = h.p.oauthReqInfo.scope
                /\ h.calls[k].scope = h.calls[k].request.scope
    /\ last.route = "POST /approve" =>
            \A k \in 1..Len(last.calls) : last.calls[k].scope = last.oauthReqInfo.scope
    /\ \A g \in grants :
            /\ g.scope = g.request.scope
            /\ g.scope \in ScopeLists

C24_Witness ==
    /\ last.route = "POST /approve"
    /\ last.outcome.kind = "response"
    /\ \E g \in grants :
            /\ g.by = last.id
            /\ g.scope = << "read_data", "admin" >>
            /\ ~(ScopesOf(g.scope) \subseteq OfferedScopes)
            /\ ScopesOf(oauthScopes) = OfferedScopes

====
